---- MODULE Spec2Model ----
(***************************************************************************)
(* naparimovie: the script interpreter (scriptcommands.py, class Script)   *)
(* and the key-frame interpolation of the Movie class (naparimovie.py).    *)
(*                                                                         *)
(* Numbers.  Script frames, angles, factors and shifts are integers.       *)
(* A rotation quaternion built by create_from_axis_angle is kept as the    *)
(* pair (angle, axis) with the angle counted in thirds of a degree, so     *)
(* that angle/3 is exact; a camera orientation of the script is the        *)
(* ordered product of such factors (quaternion multiplication is not       *)
(* commutative, the product keeps the order).  Interpolated values of the  *)
(* Movie are exact fractions <<numerator, denominator>>.                   *)
(***************************************************************************)
EXTENDS Integers, Sequences, FiniteSets, TLC

\* ------------------------------------------------------------------ bounds
MaxFrame == 3      \* largest frame number written in a script
MaxLines == 3      \* lines of a script drawn line by line
MaxGroups == 2     \* statement groups of a script drawn group by group
NumLayers == 1     \* layers of the viewer
MaxKeys == 3       \* key-frames a Movie holds
MaxSteps == 2      \* largest inter_steps a Movie is built with
MaxChain == 3      \* groups of a script with frames in order

VARIABLES
    \* Script
    commands,        \* the lines of the script file (f.readlines())
    pc,              \* next step of the script pipeline
    err,             \* the method that raised, "" when none did
    command_series,  \* Script.command_series
    end,             \* Script.end
    command_list,    \* Script.command_list
    snapshot,        \* the viewer state read by create_frame_commandlist
    states_dict,     \* Script.states_dict
    key_frames,      \* Script.key_frames
    \* Movie
    myviewer,        \* the napari viewer: camera state, layers, dims.point
    inter_steps,     \* Movie.inter_steps
    states,          \* Movie.states
    state_visible,   \* Movie.state_visible
    state_time,      \* Movie.state_time
    current_frame,   \* Movie.current_frame
    current_interpolframe,
    all_states,      \* the dense track
    all_scales,
    all_fov,
    all_center,
    all_vis,
    all_time,
    last             \* the last key handler run and how it ended

scriptVars == <<commands, pc, err, command_series, end, command_list,
                snapshot, states_dict, key_frames>>
movieVars == <<myviewer, inter_steps, states, state_visible, state_time,
               current_frame, current_interpolframe, all_states, all_scales,
               all_fov, all_center, all_vis, all_time, last>>
trackVars == <<all_states, all_scales, all_fov, all_center, all_vis, all_time>>
vars == <<scriptVars, movieVars>>

\* ------------------------------------------------------------------ lines
Frames == 0..MaxFrame
NoVec == <<0, 0, 0>>

\* An operation clause: keyword kw, number n, vector v, flag b.
Clause(kw, n, v, b) == [kw |-> kw, n |-> n, v |-> v, b |-> b]
NoClause == Clause("none", 0, NoVec, FALSE)

Rot90z == Clause("rotate", 90, <<0, 0, 1>>, FALSE)
Rot180x == Clause("rotate", 180, <<1, 0, 0>>, FALSE)
Zoom2 == Clause("zoom", 2, NoVec, FALSE)
Trans == Clause("translate", 0, <<1, 0, -1>>, FALSE)
Hide0 == Clause("make", 0, NoVec, FALSE)
Time1 == Clause("time", 1, NoVec, FALSE)

Clauses == {Rot90z, Rot180x, Zoom2, Trans, Hide0, Time1}

\* A line of text.  kind "at": "At frame a <clause>"; "from": "From frame a
\* to frame b"; "cont": "- <clause>"; "comment": "# ...", mentioning
\* "to frame ref" in its text when ref >= 0.  nl: the line ends with "\n"
\* (only the last line of a file can lack it).
Line(kind, a, b, nl, op, ref) ==
    [kind |-> kind, a |-> a, b |-> b, nl |-> nl, op |-> op, ref |-> ref]
AtLine(a, op) == Line("at", a, a, TRUE, op, -1)
FromLine(a, b, nl) == Line("from", a, b, nl, NoClause, -1)
ContLine(op) == Line("cont", 0, 0, TRUE, op, -1)
CommentLine(ref) == Line("comment", 0, 0, TRUE, NoClause, ref)

\* main_line[0]
FirstChar(l) ==
    CASE l.kind = "comment" -> "#"
      [] l.kind = "cont" -> "-"
      [] l.kind = "from" -> "F"
      [] OTHER -> "A"

\* len(re.findall('.*to frame \d+(\n)', main_line)) == 1
IsToFrameHeader(l) == l.kind = "from" /\ l.nl

\* re.findall('(At frame |to frame )(\d+).*', x): the number of the first
\* match, -1 when the line has none.
FrameRef(l) ==
    CASE l.kind = "at" -> l.a
      [] l.kind = "from" -> l.b
      [] l.kind = "comment" -> l.ref
      [] OTHER -> -1

\* ------------------------------------------------------------ read_script
Group(head, body) == [head |-> head, body |-> body]

\* The inner while of read_script from position i (1-based index of
\* commands[line]): the continuation lines consumed, or an IndexError when
\* commands[line] is read past the end.
RECURSIVE ConsumeBody(_, _, _)
ConsumeBody(cmds, i, acc) ==
    IF i > Len(cmds) THEN [error |-> TRUE, body |-> acc, next |-> i]
    ELSE IF FirstChar(cmds[i]) = "-"
         THEN IF i + 1 = Len(cmds) + 1
              THEN [error |-> FALSE, body |-> Append(acc, cmds[i]), next |-> i + 1]
              ELSE ConsumeBody(cmds, i + 1, Append(acc, cmds[i]))
         ELSE [error |-> FALSE, body |-> acc, next |-> i]

\* The outer while of read_script.
RECURSIVE GroupLines(_, _, _)
GroupLines(cmds, i, acc) ==
    IF i > Len(cmds) THEN [error |-> FALSE, series |-> acc]
    ELSE LET main_line == cmds[i] IN
         IF FirstChar(main_line) = "#" THEN GroupLines(cmds, i + 1, acc)
         ELSE IF IsToFrameHeader(main_line)
              THEN LET r == ConsumeBody(cmds, i + 1, << >>) IN
                   IF r.error THEN [error |-> TRUE, series |-> acc]
                   ELSE GroupLines(cmds, r.next,
                                   Append(acc, Group(main_line, r.body)))
              ELSE GroupLines(cmds, i + 1,
                              Append(acc, Group(main_line, <<main_line>>)))

SetMax(S) == CHOOSE x \in S : \A y \in S : y <= x

\* end = np.max([... for x in end if x]) over all lines of the file
EndRefs(cmds) == {FrameRef(cmds[i]) : i \in 1..Len(cmds)} \ {-1}

ReadScriptOf(cmds) ==
    LET g == GroupLines(cmds, 1, << >>) IN
    IF g.error \/ EndRefs(cmds) = {}
    THEN [error |-> TRUE, series |-> << >>, end |-> 0]
    ELSE [error |-> FALSE, series |-> g.series, end |-> SetMax(EndRefs(cmds))]

\* ---------------------------------------------------------- parse_command
\* A typed operation: ('rotate', q), ('zoom', factor), ('translate', vec),
\* ('vis', layer, flag), ('time', shift).  For 'rotate' the quaternion q is
\* the pair (n, v): n thirds of a degree around axis v.
Operation(operation, n, v, b) ==
    [operation |-> operation, n |-> n, v |-> v, b |-> b]

\* The split taken only above 180 degrees.
LargeAngleAbove(angle) == angle > 180

\* angle >= 180
LargeAngle(angle) == angle >= 180

\* parse_command: is_list tells a list of parts from a single tuple.
ParseCommand(c) ==
    CASE c.kw = "rotate" ->
           IF LargeAngle(c.n)
           THEN [error |-> FALSE, is_list |-> TRUE,
                 result |-> [i \in 1..3 |-> Operation("rotate", c.n, c.v, FALSE)]]
           ELSE [error |-> FALSE, is_list |-> FALSE,
                 result |-> <<Operation("rotate", 3 * c.n, c.v, FALSE)>>]
      [] c.kw = "zoom" ->
           [error |-> FALSE, is_list |-> FALSE,
            result |-> <<Operation("zoom", c.n, NoVec, FALSE)>>]
      [] c.kw = "translate" ->
           [error |-> FALSE, is_list |-> FALSE,
            result |-> <<Operation("translate", 0, c.v, FALSE)>>]
      [] c.kw = "make" ->
           [error |-> FALSE, is_list |-> FALSE,
            result |-> <<Operation("vis", c.n, NoVec, c.b)>>]
      [] c.kw = "time" ->
           [error |-> FALSE, is_list |-> FALSE,
            result |-> <<Operation("time", c.n, NoVec, FALSE)>>]
      [] OTHER -> [error |-> TRUE, is_list |-> FALSE, result |-> << >>]

\* ------------------------------------------------------ create_commandlist
Command(start, stop, op) == [start |-> start, end |-> stop, op |-> op]

\* np.linspace(start, end, num).astype(int)[i], i = 0..num-1: the points are
\* start + i*(end-start)/(num-1), all between start and end, so never
\* negative, and astype(int) drops the fraction.
LinspaceInt(start, stop, num, i) ==
    ((num - 1) * start + i * (stop - start)) \div (num - 1)

\* Lines 110-115: the frames of a group's header.
HeaderFrames(head) ==
    IF head.kind = "from"
    THEN [error |-> FALSE, start |-> head.a, end |-> head.b]
    ELSE IF head.kind = "at"
         THEN [error |-> FALSE, start |-> head.a, end |-> head.a]
         ELSE [error |-> TRUE, start |-> 0, end |-> 0]

\* Lines 119-127: the commands of one statement of a group.
CompileStatement(start, stop, c2) ==
    LET parsed == ParseCommand(c2.op) IN
    IF parsed.error THEN [error |-> TRUE, cmds |-> << >>]
    ELSE IF parsed.is_list
         THEN [error |-> FALSE,
               cmds |-> [i \in 1..Len(parsed.result) |->
                           Command(LinspaceInt(start, stop, Len(parsed.result) + 1, i - 1),
                                   LinspaceInt(start, stop, Len(parsed.result) + 1, i),
                                   parsed.result[i])]]
         ELSE [error |-> FALSE, cmds |-> <<Command(start, stop, parsed.result[1])>>]

RECURSIVE CompileBody(_, _, _, _, _)
CompileBody(start, stop, body, j, acc) ==
    IF j > Len(body) THEN [error |-> FALSE, cmds |-> acc]
    ELSE LET r == CompileStatement(start, stop, body[j]) IN
         IF r.error THEN [error |-> TRUE, cmds |-> acc]
         ELSE CompileBody(start, stop, body, j + 1, acc \o r.cmds)

\* Lines 106-127: the commands of all groups, in script order.
RECURSIVE CompileSeries(_, _, _)
CompileSeries(series, k, acc) ==
    IF k > Len(series) THEN [error |-> FALSE, cmds |-> acc]
    ELSE LET h == HeaderFrames(series[k].head) IN
         IF h.error THEN [error |-> TRUE, cmds |-> acc]
         ELSE LET r == CompileBody(h.start, h.end, series[k].body, 1, acc) IN
              IF r.error THEN r ELSE CompileSeries(series, k + 1, r.cmds)

\* Lines 130-131: command_list[np.argsort(command_list[:,0]),:].  The lists
\* of the model have fewer than 17 commands, for which numpy's default sort
\* is an insertion sort: commands of equal start keep their order.
RECURSIVE InsertByStart(_, _)
InsertByStart(sorted, c) ==
    IF sorted = << >> THEN <<c>>
    ELSE IF sorted[Len(sorted)].start <= c.start THEN Append(sorted, c)
         ELSE Append(InsertByStart(SubSeq(sorted, 1, Len(sorted) - 1), c),
                     sorted[Len(sorted)])

RECURSIVE SortByStart(_)
SortByStart(cmds) ==
    IF cmds = << >> THEN << >>
    ELSE InsertByStart(SortByStart(SubSeq(cmds, 1, Len(cmds) - 1)), cmds[Len(cmds)])

\* create_commandlist; np.array([])[:,0] raises for an empty command list.
CreateCommandlistOf(series) ==
    LET r == CompileSeries(series, 1, << >>) IN
    IF r.error \/ r.cmds = << >> THEN [error |-> TRUE, list |-> << >>]
    ELSE [error |-> FALSE, list |-> SortByStart(r.cmds)]

\* ------------------------------------------------ create_frame_commandlist
\* An attribute of a frame dictionary: has = FALSE stands for the empty
\* list [] the dictionaries are created with.
Attr(v) == [has |-> TRUE, v |-> v]
EmptyRotate == [has |-> FALSE, v |-> << >>]
EmptyTranslate == [has |-> FALSE, v |-> NoVec]
EmptyZoom == [has |-> FALSE, v |-> 0]
EmptyVis == [has |-> FALSE, v |-> << >>]
EmptyTime == [has |-> FALSE, v |-> 0]

\* Line 189: dict(zip(('frame','rotate','translate','zoom','vis','time'), ...))
EmptyFrame(a) ==
    [frame |-> a, rotate |-> EmptyRotate, translate |-> EmptyTranslate,
     zoom |-> EmptyZoom, vis |-> EmptyVis, time |-> EmptyTime]

\* The viewer as create_frame_commandlist reads it: camera.get_state(), the
\* layers' visible flags, and dims.point (4 entries when there is a time axis).
ViewerSnapshots ==
    {[quaternion |-> << >>, scale_factor |-> 1, center |-> NoVec,
      visible |-> [l \in 1..NumLayers |-> TRUE], ndim4 |-> h, point0 |-> t] :
        h \in BOOLEAN, t \in 0..1} \ 
    {[quaternion |-> << >>, scale_factor |-> 1, center |-> NoVec,
      visible |-> [l \in 1..NumLayers |-> TRUE], ndim4 |-> FALSE, point0 |-> 1]}

\* Lines 193-199
FirstFrame(viewer) ==
    [frame |-> 0, rotate |-> Attr(viewer.quaternion),
     translate |-> Attr(viewer.center), zoom |-> Attr(viewer.scale_factor),
     vis |-> Attr(viewer.visible),
     time |-> IF viewer.ndim4 THEN Attr(viewer.point0) ELSE EmptyTime]

VecAdd(u, w) == [i \in 1..3 |-> u[i] + w[i]]

\* Lines 206-230: one pass of the loop, for command c.  sd is states_dict
\* (frame f at position f+1), old is old_state.
ApplyCommand(sd, old, c) ==
    LET s == c.start + 1
        e == c.end + 1
        op == c.op
    IN
    IF s > Len(sd) \/ e > Len(sd) THEN [error |-> TRUE, sd |-> sd, old |-> old]
    ELSE CASE op.operation = "rotate" ->
                LET new == Attr(old.rotate.v \o <<[n |-> op.n, v |-> op.v]>>)
                    sd1 == [sd EXCEPT ![s].rotate = old.rotate]
                IN [error |-> FALSE, sd |-> [sd1 EXCEPT ![e].rotate = new],
                    old |-> [old EXCEPT !.rotate = new]]
           [] op.operation = "translate" ->
                LET new == Attr(VecAdd(old.translate.v, op.v))
                    sd1 == [sd EXCEPT ![s].translate = old.translate]
                IN [error |-> FALSE, sd |-> [sd1 EXCEPT ![e].translate = new],
                    old |-> [old EXCEPT !.translate = new]]
           [] op.operation = "zoom" ->
                LET new == Attr(old.zoom.v * op.n)
                    sd1 == [sd EXCEPT ![s].zoom = old.zoom]
                IN [error |-> FALSE, sd |-> [sd1 EXCEPT ![e].zoom = new],
                    old |-> [old EXCEPT !.zoom = new]]
           [] op.operation = "vis" ->
                IF op.n + 1 > Len(old.vis.v)
                THEN [error |-> TRUE, sd |-> sd, old |-> old]
                ELSE LET new == Attr([old.vis.v EXCEPT ![op.n + 1] = op.b])
                         sd1 == [sd EXCEPT ![s].vis = old.vis]
                     IN [error |-> FALSE, sd |-> [sd1 EXCEPT ![e].vis = new],
                         old |-> [old EXCEPT !.vis = new]]
           [] OTHER ->
                IF ~old.time.has
                THEN [error |-> TRUE, sd |-> sd, old |-> old]
                ELSE LET new == Attr(old.time.v + op.n)
                         sd1 == [sd EXCEPT ![s].time = old.time]
                     IN [error |-> FALSE, sd |-> [sd1 EXCEPT ![e].time = new],
                         old |-> [old EXCEPT !.time = new]]

\* Lines 203-230: the loop over command_list.
RECURSIVE Compound(_, _, _, _)
Compound(cmds, i, sd, old) ==
    IF i > Len(cmds) THEN [error |-> FALSE, sd |-> sd, old |-> old]
    ELSE LET r == ApplyCommand(sd, old, cmds[i]) IN
         IF r.error THEN r ELSE Compound(cmds, i + 1, r.sd, r.old)

\* The last frame left as the loop wrote it.
CloseLastFrameSkipped(sd, old) == sd

\* Lines 232-233: the last frame takes old_state.
CloseLastFrame(sd, old) ==
    [sd EXCEPT ![Len(sd)] = [old EXCEPT !.frame = sd[Len(sd)].frame]]

CreateFrameCommandlistOf(cmds, end_frame, viewer) ==
    LET first == FirstFrame(viewer)
        sd0 == [f \in 1..(end_frame + 1) |-> IF f = 1 THEN first ELSE EmptyFrame(f - 1)]
        r == Compound(cmds, 1, sd0, first)
    IN IF r.error THEN [error |-> TRUE, sd |-> << >>]
       ELSE [error |-> FALSE, sd |-> CloseLastFrame(r.sd, r.old)]

\* ---------------------------------------------------------- make_keyframes
\* np.any([y[x] for x in props]): the truth value of each entry, as Python
\* takes it: a quaternion object and a non-empty tuple or list are true, a
\* number is true when it is not zero, the empty list is false.
Truthy(y) ==
    \/ y.rotate.has
    \/ y.translate.has
    \/ y.zoom.has /\ y.zoom.v # 0
    \/ y.vis.has /\ Len(y.vis.v) > 0
    \/ y.time.has /\ y.time.v # 0

MakeKeyframesOf(sd) == SelectSeq(sd, Truthy)

\* ------------------------------------------------------- the script's run
ReadScript ==
    /\ pc = "read_script"
    /\ LET r == ReadScriptOf(commands) IN
       IF r.error
       THEN /\ pc' = "error"
            /\ err' = "read_script"
            /\ UNCHANGED <<command_series, end>>
       ELSE /\ pc' = "create_commandlist"
            /\ command_series' = r.series
            /\ end' = r.end
            /\ UNCHANGED err
    /\ UNCHANGED <<commands, command_list, snapshot, states_dict, key_frames>>
    /\ UNCHANGED movieVars

CreateCommandlist ==
    /\ pc = "create_commandlist"
    /\ LET r == CreateCommandlistOf(command_series) IN
       IF r.error
       THEN /\ pc' = "error"
            /\ err' = "create_commandlist"
            /\ UNCHANGED command_list
       ELSE /\ pc' = "create_frame_commandlist"
            /\ command_list' = r.list
            /\ UNCHANGED err
    /\ UNCHANGED <<commands, command_series, end, snapshot, states_dict, key_frames>>
    /\ UNCHANGED movieVars

CreateFrameCommandlist ==
    /\ pc = "create_frame_commandlist"
    /\ \E viewer \in ViewerSnapshots :
         LET r == CreateFrameCommandlistOf(command_list, end, viewer) IN
         /\ snapshot' = viewer
         /\ IF r.error
            THEN /\ pc' = "error"
                 /\ err' = "create_frame_commandlist"
                 /\ UNCHANGED states_dict
            ELSE /\ pc' = "make_keyframes"
                 /\ states_dict' = r.sd
                 /\ UNCHANGED err
    /\ UNCHANGED <<commands, command_series, end, command_list, key_frames>>
    /\ UNCHANGED movieVars

MakeKeyframes ==
    /\ pc = "make_keyframes"
    /\ key_frames' = MakeKeyframesOf(states_dict)
    /\ pc' = "done"
    /\ UNCHANGED <<commands, err, command_series, end, command_list, snapshot,
                   states_dict>>
    /\ UNCHANGED movieVars

\* ------------------------------------------------------ the scripts drawn
RECURSIVE SeqsUpTo(_, _)
SeqsUpTo(S, n) ==
    IF n = 0 THEN {<< >>}
    ELSE LET shorter == SeqsUpTo(S, n - 1) IN
         shorter \cup {Append(q, x) : q \in {t \in shorter : Len(t) = n - 1}, x \in S}

\* Scripts drawn line by line; the clause of every statement is the same.
LineUniverse ==
    {AtLine(a, Zoom2) : a \in Frames}
    \cup {FromLine(a, b, nl) : a \in Frames, b \in Frames, nl \in BOOLEAN}
    \cup {ContLine(Zoom2)}
    \cup {CommentLine(r) : r \in {-1} \cup Frames}

LineScripts ==
    {q \in SeqsUpTo({l \in LineUniverse : l.kind = "from" => l.a <= l.b}, MaxLines) :
        \A i \in 1..Len(q) : ~q[i].nl => i = Len(q)}

\* Scripts drawn group by group: "At frame a <clause>" or "From frame a to
\* frame b" followed by one "- <clause>" line.
GroupUniverse ==
    {<<AtLine(a, c)>> : a \in Frames, c \in Clauses}
    \cup {<<FromLine(a, b, TRUE), ContLine(c)>> : a \in Frames, b \in Frames, c \in Clauses}

RECURSIVE Flatten(_)
Flatten(gs) == IF gs = << >> THEN << >> ELSE Head(gs) \o Flatten(Tail(gs))

GroupScripts == {Flatten(gs) : gs \in SeqsUpTo(GroupUniverse, MaxGroups)}

ScriptStart ==
    /\ pc = "read_script"
    /\ err = ""
    /\ command_series = << >>
    /\ end = 0
    /\ command_list = << >>
    /\ snapshot = CHOOSE v \in ViewerSnapshots : ~v.ndim4
    /\ states_dict = << >>
    /\ key_frames = << >>

InitLines == commands \in LineScripts /\ ScriptStart
InitGroups == commands \in GroupScripts /\ ScriptStart

NextScript ==
    \/ ReadScript
    \/ CreateCommandlist
    \/ CreateFrameCommandlist
    \/ MakeKeyframes


\* ================================================================= Movie

\* ---------------------------------------------------------------- numbers
Abs(x) == IF x < 0 THEN -x ELSE x

RECURSIVE Gcd(_, _)
Gcd(a, b) == IF b = 0 THEN a ELSE Gcd(b, a % b)

\* The fraction n/d (d > 0) in lowest terms.
Frac(n, d) == LET g == Gcd(Abs(n), d) IN <<n \div g, d \div g>>

\* ------------------------------------------------------------- the viewer
\* The views the user sets up: camera state (the quaternion is a rotation
\* angle about one axis, with all angles less than a half turn apart),
\* layer visibility and time point.  Without a time axis dims.point has no
\* time entry; point0 stays 0.
View(q, scale, fov, center, visible, t, ndim4) ==
    [camera |-> [quaternion |-> q, scale_factor |-> scale, fov |-> fov,
                 center |-> center],
     visible |-> [l \in 1..NumLayers |-> visible],
     ndim4 |-> ndim4,
     point0 |-> IF ndim4 THEN t ELSE 0]

ViewerStates(ndim4) ==
    {View(0, 1, 0, <<0, 0, 0>>, TRUE, 0, ndim4),
     View(3, 2, 6, <<1, 0, 2>>, FALSE, 4, ndim4)}

\* ------------------------------------------------------------ create_steps
\* Quaternion.intermediates(q0, q1, n, include_endpoints=True), step j of
\* 0..n+1: slerp(q0, q1, j/(n+1)).
Slerp(q0, q1, j, m) == Frac(q0 * m + (q1 - q0) * j, m)

\* Lines 192-201: both endpoints of every segment are appended.
RotationTrack(qs, n) ==
    [i \in 1..((Len(qs) - 1) * (n + 2)) |->
        LET seg == (i - 1) \div (n + 2) + 1
            j == (i - 1) % (n + 2)
        IN Slerp(qs[seg], qs[seg + 1], j, n + 1)]

\* np.interp(x, xp = np.linspace(0, L-1, K), fp)[x] for x in 0..L-1, K >= 2:
\* xp[j] = j*(L-1)/(K-1).
InterpAt(x, L, fp) ==
    LET K == Len(fp)
        j0 == (x * (K - 1)) \div (L - 1)
        j == IF j0 > K - 2 THEN K - 2 ELSE j0
    IN Frac(fp[j + 1] * (L - 1) + (fp[j + 2] - fp[j + 1]) * (x * (K - 1) - j * (L - 1)),
            L - 1)

\* np.interp(x = np.arange(L), ...): empty for L = 0.
Interp(L, fp) == [i \in 1..L |-> InterpAt(i - 1, L, fp)]

\* The threshold kept right of the middle of the ramp.
VisibleAtHalf(f) == 2 * f[1] >= f[2]

\* vis_interp > 0
VisibleAt(f) == f[1] > 0

\* Lines 232-236: state_time[x] + t_step*np.arange(0, inter_steps+2), then
\* astype(int); the time points are never negative.
TimeTrack(ts, n) ==
    [i \in 1..((Len(ts) - 1) * (n + 2)) |->
        LET x == (i - 1) \div (n + 2) + 1
            j == (i - 1) % (n + 2)
        IN (ts[x] * (n + 2) + (ts[x + 1] - ts[x]) * j) \div (n + 2)]

\* create_steps on the key-frame lists.  K = 0: np.interp raises on the
\* empty xp (line 205).  K = 1: every channel is empty and, with a time
\* axis, np.concatenate([]) raises (line 236).
CreateStepsOf(sts, svis, stime, n, ndim4) ==
    LET K == Len(sts)
        L == IF K = 0 THEN 0 ELSE (K - 1) * (n + 2)
    IN
    IF K = 0 \/ (ndim4 /\ Len(stime) < 2)
    THEN [error |-> TRUE, all_states |-> << >>, all_scales |-> << >>,
          all_fov |-> << >>, all_center |-> << >>, all_vis |-> << >>,
          all_time |-> << >>]
    ELSE [error |-> FALSE,
          all_states |-> RotationTrack([k \in 1..K |-> sts[k].quaternion], n),
          all_scales |-> Interp(L, [k \in 1..K |-> sts[k].scale_factor]),
          all_fov |-> Interp(L, [k \in 1..K |-> sts[k].fov]),
          all_center |->
              [i \in 1..L |->
                 [c \in 1..3 |-> InterpAt(i - 1, L, [k \in 1..K |-> sts[k].center[c]])]],
          all_vis |->
              [l \in 1..Len(svis[1]) |->
                 LET vis_interp ==
                       Interp(L, [k \in 1..K |-> IF svis[k][l] THEN 1 ELSE 0])
                 IN [i \in 1..L |-> VisibleAt(vis_interp[i])]],
          all_time |-> IF ndim4 THEN TimeTrack(stime, n) ELSE << >>]

\* ------------------------------------------------------------ key handlers
\* list.insert(i, x): an index past the end appends.
InsertAt(q, i, x) ==
    LET pos == IF i > Len(q) THEN Len(q) ELSE i IN
    SubSeq(q, 1, pos) \o <<x>> \o SubSeq(q, pos + 1, Len(q))

\* list.pop(i), i a valid index (0-based)
PopAt(q, i) == SubSeq(q, 1, i) \o SubSeq(q, i + 2, Len(q))

Ended(op, ok, steps) ==
    [op |-> op, ok |-> ok, steps |-> steps, clean |-> last.clean /\ ok]

\* The assignments of lines 236-244, or none of them when create_steps raised.
StoreTrack(r) ==
    IF r.error THEN UNCHANGED trackVars
    ELSE /\ all_states' = r.all_states
         /\ all_scales' = r.all_scales
         /\ all_fov' = r.all_fov
         /\ all_center' = r.all_center
         /\ all_vis' = r.all_vis
         /\ all_time' = IF myviewer.ndim4 THEN r.all_time ELSE all_time

StepsEnd(r) == IF r.error THEN "error" ELSE "ok"

\* The user moves the camera, toggles layers, moves the time slider.
UserSetsView ==
    /\ \E v \in ViewerStates(myviewer.ndim4) : v # myviewer /\ myviewer' = v
    /\ UNCHANGED <<inter_steps, states, state_visible, state_time, current_frame,
                   current_interpolframe, trackVars, last>>
    /\ UNCHANGED scriptVars

\* Key 'f'.
capture_keyframe_callback ==
    /\ Len(states) < MaxKeys
    /\ states' = InsertAt(states, current_frame + 1, myviewer.camera)
    /\ state_visible' = InsertAt(state_visible, current_frame + 1, myviewer.visible)
    /\ state_time' = IF myviewer.ndim4
                     THEN InsertAt(state_time, current_frame + 1, myviewer.point0)
                     ELSE state_time
    /\ current_frame' = current_frame + 1
    /\ last' = Ended("capture", TRUE, "none")
    /\ UNCHANGED <<myviewer, inter_steps, current_interpolframe, trackVars>>
    /\ UNCHANGED scriptVars

\* Key 'r'.
replace_keyframe_callback ==
    /\ UNCHANGED scriptVars
    /\ IF current_frame >= Len(states)
       THEN /\ last' = Ended("replace", FALSE, "none")
            /\ UNCHANGED <<myviewer, inter_steps, states, state_visible, state_time,
                           current_frame, current_interpolframe, trackVars>>
       ELSE /\ states' = [states EXCEPT ![current_frame + 1] = myviewer.camera]
            /\ state_visible' = [state_visible EXCEPT ![current_frame + 1] = myviewer.visible]
            /\ state_time' = IF myviewer.ndim4
                             THEN [state_time EXCEPT ![current_frame + 1] = myviewer.point0]
                             ELSE state_time
            /\ \E r \in {CreateStepsOf(states', state_visible', state_time',
                                       inter_steps, myviewer.ndim4)} :
                 /\ StoreTrack(r)
                 /\ last' = Ended("replace", ~r.error, StepsEnd(r))
            /\ UNCHANGED <<myviewer, inter_steps, current_frame, current_interpolframe>>

\* set_to_keyframe(frame), on the lists sts, svis, stime.
ViewOfKeyframe(sts, svis, stime, frame) ==
    [myviewer EXCEPT !.camera = sts[frame + 1],
                     !.visible = svis[frame + 1],
                     !.point0 = IF myviewer.ndim4 THEN stime[frame + 1] ELSE @]

\* Key 'd'.
delete_keyframe_callback ==
    /\ UNCHANGED scriptVars
    /\ IF current_frame >= Len(states)
       THEN /\ last' = Ended("delete", FALSE, "none")
            /\ UNCHANGED <<myviewer, inter_steps, states, state_visible, state_time,
                           current_frame, current_interpolframe, trackVars>>
       ELSE /\ states' = PopAt(states, current_frame)
            /\ state_visible' = PopAt(state_visible, current_frame)
            /\ state_time' = IF myviewer.ndim4 THEN PopAt(state_time, current_frame)
                             ELSE state_time
            /\ IF Len(states') = 0
               THEN /\ last' = Ended("delete", FALSE, "none")
                    /\ UNCHANGED <<myviewer, current_frame, trackVars>>
               ELSE /\ current_frame' = (current_frame - 1) % Len(states')
                    /\ myviewer' = ViewOfKeyframe(states', state_visible', state_time',
                                                  current_frame')
                    /\ \E r \in {CreateStepsOf(states', state_visible', state_time',
                                               inter_steps, myviewer.ndim4)} :
                         /\ StoreTrack(r)
                         /\ last' = Ended("delete", ~r.error, StepsEnd(r))
            /\ UNCHANGED <<inter_steps, current_interpolframe>>

\* Keys 'a' and 'b': set_to_keyframe((current_frame + d) % len(states)).
KeyMove(op, d) ==
    IF Len(states) = 0
    THEN /\ last' = Ended(op, FALSE, "none")
         /\ UNCHANGED <<myviewer, current_frame>>
    ELSE /\ current_frame' = (current_frame + d) % Len(states)
         /\ myviewer' = ViewOfKeyframe(states, state_visible, state_time, current_frame')
         /\ last' = Ended(op, TRUE, "none")

key_adv_frame ==
    /\ KeyMove("adv", 1)
    /\ UNCHANGED <<inter_steps, states, state_visible, state_time,
                   current_interpolframe, trackVars>>
    /\ UNCHANGED scriptVars

key_back_frame ==
    /\ KeyMove("back", -1)
    /\ UNCHANGED <<inter_steps, states, state_visible, state_time,
                   current_interpolframe, trackVars>>
    /\ UNCHANGED scriptVars

\* update_napari_state(frame) on the track r: the view the viewer is set to.
ViewOfTrack(r, frame) ==
    [myviewer EXCEPT
        !.camera = [quaternion |-> r.all_states[frame + 1],
                    scale_factor |-> r.all_scales[frame + 1],
                    fov |-> r.all_fov[frame + 1],
                    center |-> r.all_center[frame + 1]],
        !.visible = [l \in 1..Len(r.all_vis) |-> r.all_vis[l][frame + 1]],
        !.point0 = IF myviewer.ndim4 THEN r.all_time[frame + 1] ELSE @]

\* The view with its whole numbers written n instead of n/1.
Whole(v) ==
    [v EXCEPT !.camera = [quaternion |-> @.quaternion[1],
                          scale_factor |-> @.scale_factor[1],
                          fov |-> @.fov[1],
                          center |-> [c \in 1..3 |-> @.center[c][1]]]]

IsWhole(v) ==
    /\ v.camera.quaternion[2] = 1
    /\ v.camera.scale_factor[2] = 1
    /\ v.camera.fov[2] = 1
    /\ \A c \in 1..3 : v.camera.center[c][2] = 1

\* Key 'w': create_steps, then the next interpolated frame is shown.  The
\* views of the model are those of ViewerStates: the step is taken when the
\* frame shown is one of them.
key_interpolframe ==
    /\ \E r \in {CreateStepsOf(states, state_visible, state_time, inter_steps,
                               myviewer.ndim4)} :
         /\ StoreTrack(r)
         /\ IF r.error \/ Len(r.all_states) = 0
            THEN /\ last' = Ended("interpol", FALSE, StepsEnd(r))
                 /\ UNCHANGED <<myviewer, current_interpolframe>>
            ELSE \E new_frame \in {(current_interpolframe + 1) % Len(r.all_states)} :
                 \E shown \in {ViewOfTrack(r, new_frame)} :
                    /\ IsWhole(shown)
                    /\ Whole(shown) \in ViewerStates(myviewer.ndim4)
                    /\ myviewer' = Whole(shown)
                    /\ current_interpolframe' = new_frame
                    /\ last' = Ended("interpol", TRUE, "ok")
    /\ UNCHANGED <<inter_steps, states, state_visible, state_time, current_frame>>
    /\ UNCHANGED scriptVars

\* Movie.__init__ (lines 62-73) on a viewer showing one of the views.
InitMovie ==
    /\ \E ndim4 \in BOOLEAN : myviewer \in ViewerStates(ndim4)
    /\ inter_steps \in {0, MaxSteps}
    /\ states = << >>
    /\ state_visible = << >>
    /\ state_time = << >>
    /\ all_states = << >>
    /\ all_scales = << >>
    /\ all_fov = << >>
    /\ all_center = << >>
    /\ all_vis = << >>
    /\ all_time = << >>
    /\ current_frame = 0
    /\ current_interpolframe = 0
    /\ last = [op |-> "init", ok |-> TRUE, steps |-> "none", clean |-> TRUE]

NextMovie ==
    \/ UserSetsView
    \/ capture_keyframe_callback
    \/ replace_keyframe_callback
    \/ delete_keyframe_callback
    \/ key_adv_frame
    \/ key_back_frame
    \/ key_interpolframe

\* One script and one Movie, each specification running one of the two.
NoMovie ==
    /\ myviewer = View(0, 1, 0, <<0, 0, 0>>, TRUE, 0, FALSE)
    /\ inter_steps = 0
    /\ states = << >>
    /\ state_visible = << >>
    /\ state_time = << >>
    /\ all_states = << >>
    /\ all_scales = << >>
    /\ all_fov = << >>
    /\ all_center = << >>
    /\ all_vis = << >>
    /\ all_time = << >>
    /\ current_frame = 0
    /\ current_interpolframe = 0
    /\ last = [op |-> "init", ok |-> TRUE, steps |-> "none", clean |-> TRUE]

NoScript == commands = << >> /\ ScriptStart

Init == InitGroups /\ InitMovie
Next == NextScript \/ NextMovie

Spec == Init /\ [][Next]_vars

\* A script drawn line by line, run through the pipeline.
InitLinesRun == InitLines /\ NoMovie
SpecLines == InitLinesRun /\ [][NextScript]_vars

\* A script drawn group by group, run through the pipeline.
InitScriptRun == InitGroups /\ NoMovie
SpecScript == InitScriptRun /\ [][NextScript]_vars

\* A Movie under its key handlers.
InitMovieRun == NoScript /\ InitMovie
SpecMovie == InitMovieRun /\ [][NextMovie]_vars

\* Scripts of up to MaxChain groups with frames in order (a <= b), rotating
\* and zooming, run through the pipeline.
ChainUniverse ==
    {<<AtLine(a, c)>> : a \in Frames, c \in {Rot90z, Zoom2}}
    \cup {<<FromLine(a, b, TRUE), ContLine(c)>> :
            a \in Frames, b \in Frames, c \in {Rot90z, Zoom2}}
ChainScripts ==
    {Flatten(gs) :
       gs \in SeqsUpTo({g \in ChainUniverse : g[1].kind = "from" => g[1].a <= g[1].b},
                       MaxChain)}
InitChainRun == commands \in ChainScripts /\ ScriptStart /\ NoMovie
SpecChain == InitChainRun /\ [][NextScript]_vars

\* ================================================================ claims
RECURSIVE SumSeq(_)
SumSeq(q) == IF q = << >> THEN 0 ELSE Head(q) + SumSeq(Tail(q))

RECURSIVE ProdSeq(_)
ProdSeq(q) == IF q = << >> THEN 1 ELSE Head(q) * ProdSeq(Tail(q))

IsRotate(c) == c.op.operation = "rotate"
IsTranslate(c) == c.op.operation = "translate"
IsZoom(c) == c.op.operation = "zoom"
IsVis(c) == c.op.operation = "vis"
IsTime(c) == c.op.operation = "time"

Framed == pc \in {"make_keyframes", "done"}
LastFrame == states_dict[end + 1]

\* The deltas of command_list on one attribute, in command_list order.
RotateDeltas ==
    LET R == SelectSeq(command_list, IsRotate) IN
    [i \in 1..Len(R) |-> [n |-> R[i].op.n, v |-> R[i].op.v]]
ZoomDeltas ==
    LET R == SelectSeq(command_list, IsZoom) IN [i \in 1..Len(R) |-> R[i].op.n]
TimeDeltas ==
    LET R == SelectSeq(command_list, IsTime) IN [i \in 1..Len(R) |-> R[i].op.n]
TranslateDeltas(k) ==
    LET R == SelectSeq(command_list, IsTranslate) IN [i \in 1..Len(R) |-> R[i].op.v[k]]
\* The flag of the last visibility command on layer l (1-based), if any.
FoldedVisible(l) ==
    LET I == {i \in 1..Len(command_list) :
                IsVis(command_list[i]) /\ command_list[i].op.n + 1 = l} IN
    IF I = {} THEN snapshot.visible[l] ELSE command_list[SetMax(I)].op.b

\* C1: after create_frame_commandlist the last frame (index end) holds, for
\* every attribute, the viewer snapshot's value folded with the deltas of all
\* commands on that attribute in command_list order, whatever their end
\* frames: rotation baseline*A*B..., translation and time the sums, zoom the
\* product, visibility the last flag set per layer.
C1_LastFrameIsFold ==
    Framed =>
        /\ LastFrame.frame = end
        /\ LastFrame.rotate = Attr(snapshot.quaternion \o RotateDeltas)
        /\ LastFrame.translate =
             Attr([k \in 1..3 |-> snapshot.center[k] + SumSeq(TranslateDeltas(k))])
        /\ LastFrame.zoom = Attr(snapshot.scale_factor * ProdSeq(ZoomDeltas))
        /\ LastFrame.vis = Attr([l \in 1..NumLayers |-> FoldedVisible(l)])
        /\ LastFrame.time =
             IF snapshot.ndim4 THEN Attr(snapshot.point0 + SumSeq(TimeDeltas))
             ELSE EmptyTime

\* Two different rotations A then B of command_list, B ending before A.
C1_Witness ==
    /\ pc = "done"
    /\ \E i, j \in 1..Len(command_list) :
         /\ i < j
         /\ IsRotate(command_list[i]) /\ IsRotate(command_list[j])
         /\ command_list[i].op # command_list[j].op
         /\ command_list[j].end < command_list[i].end
         /\ command_list[i].end < end

\* y has at least one non-empty attribute.
NonEmpty(y) ==
    y.rotate.has \/ y.translate.has \/ y.zoom.has \/ y.vis.has \/ y.time.has

\* C2: make_keyframes keeps exactly the frames of states_dict that have at
\* least one non-empty attribute, in frame order, whatever the authored
\* values are.
C2_KeyframesAreNonEmptyFrames ==
    pc = "done" => key_frames = SelectSeq(states_dict, NonEmpty)

\* The statements of the script's groups, each with its group's frames.
RECURSIVE Statements(_)
Statements(series) ==
    IF series = << >> THEN << >>
    ELSE LET g == Head(series)
             h == HeaderFrames(g.head)
         IN [j \in 1..Len(g.body) |->
               [start |-> h.start, end |-> h.end, op |-> g.body[j].op]]
            \o Statements(Tail(series))

Listed == pc \in {"create_frame_commandlist", "make_keyframes", "done"}
           \/ (pc = "error" /\ err = "create_frame_commandlist")

\* p is the i-th of the 4 evenly spaced points from S to E, integer-converted.
EvenPoint(p, S, E, i) == 3 * p <= 3 * S + i * (E - S) /\ 3 * S + i * (E - S) < 3 * p + 3

\* C3: a rotate statement with angle >= 180 over [S,E] gives exactly 3
\* rotate commands of angle/3 (op.n thirds of a degree, so the three make
\* the whole angle) around the same axis, over [p0,p1], [p1,p2], [p2,p3]
\* with p0 = S, p3 = E and evenly spaced integer-converted points; one with
\* angle < 180 gives a single command over (S,E); and command_list holds
\* nothing else.
C3_RotationSplit ==
    Listed =>
        LET sts == Statements(command_series)
            n == Len(command_list)
        IN
        /\ \A k \in 1..Len(sts) :
             sts[k].op.kw = "rotate" =>
               IF sts[k].op.n >= 180
               THEN \E i1, i2, i3 \in 1..n :
                      /\ i1 # i2 /\ i2 # i3 /\ i1 # i3
                      /\ \A i \in {i1, i2, i3} :
                           /\ command_list[i].op.operation = "rotate"
                           /\ command_list[i].op.v = sts[k].op.v
                           /\ command_list[i].op.n = sts[k].op.n
                      /\ command_list[i1].start = sts[k].start
                      /\ command_list[i1].end = command_list[i2].start
                      /\ command_list[i2].end = command_list[i3].start
                      /\ command_list[i3].end = sts[k].end
                      /\ EvenPoint(command_list[i1].end, sts[k].start, sts[k].end, 1)
                      /\ EvenPoint(command_list[i2].end, sts[k].start, sts[k].end, 2)
               ELSE \E i \in 1..n :
                      /\ command_list[i].op.operation = "rotate"
                      /\ command_list[i].op.v = sts[k].op.v
                      /\ command_list[i].op.n = 3 * sts[k].op.n
                      /\ command_list[i].start = sts[k].start
                      /\ command_list[i].end = sts[k].end
        /\ n = SumSeq([k \in 1..Len(sts) |->
                         IF sts[k].op.kw = "rotate" /\ sts[k].op.n >= 180 THEN 3 ELSE 1])

\* A split rotation over a range of at least 3 frames, beside a small one.
C3_Witness ==
    /\ Listed
    /\ \E k, m \in 1..Len(Statements(command_series)) :
         LET sts == Statements(command_series) IN
         /\ sts[k].op.kw = "rotate" /\ sts[k].op.n >= 180
         /\ sts[k].end - sts[k].start >= 3
         /\ sts[m].op.kw = "rotate" /\ sts[m].op.n < 180
    /\ Len(command_list) = 4

\* The run of continuation lines from position i on.
RECURSIVE Run(_, _)
Run(cmds, i) ==
    IF i > Len(cmds) \/ cmds[i].kind # "cont" THEN << >>
    ELSE <<cmds[i]>> \o Run(cmds, i + 1)

\* C9: every "From frame A to frame B" header, wherever it stands (the last
\* line included), opens a group whose body is the run of '-' lines that
\* follow it, empty when there is none, and read_script completes.
C9_HeaderOpensGroup ==
    pc # "read_script" =>
        \A i \in 1..Len(commands) :
            commands[i].kind = "from" =>
                /\ err # "read_script"
                /\ \E k \in 1..Len(command_series) :
                     /\ command_series[k].head = commands[i]
                     /\ command_series[k].body = Run(commands, i + 1)

RemoveAt(q, i) == SubSeq(q, 1, i - 1) \o SubSeq(q, i + 1, Len(q))

\* C10: a line starting with '#' is skipped entirely: read_script gives the
\* command_series and end it gives for the script without that line.
C10_CommentSkipped ==
    pc # "read_script" =>
        \A i \in 1..Len(commands) :
            commands[i].kind = "comment" =>
                LET r == ReadScriptOf(RemoveAt(commands, i)) IN
                /\ r.error <=> err = "read_script"
                /\ ~r.error => command_series = r.series /\ end = r.end

\* ---------------------------------------------------------- Movie claims
\* create_steps ran in the last handler and returned: the stored track is
\* the one it made of the key-frame lists as they are now.
StepsDone == last.steps = "ok"
NumKeys == Len(states)
SegLen == inter_steps + 2

\* A key-frame value as a track value.
Exact(v) == <<v, 1>>

\* C4: with exactly 2 key-frames every channel of the dense track has
\* inter_steps+2 entries, the first equal to key-frame 0's value and the
\* last equal to key-frame 1's value: rotation, zoom, fov, center, each
\* layer's visibility, and the time index when there is a time axis.
C4_TwoKeyframeTrack ==
    (StepsDone /\ NumKeys = 2) =>
        /\ Len(all_states) = SegLen
        /\ all_states[1] = Exact(states[1].quaternion)
        /\ all_states[SegLen] = Exact(states[2].quaternion)
        /\ Len(all_scales) = SegLen
        /\ all_scales[1] = Exact(states[1].scale_factor)
        /\ all_scales[SegLen] = Exact(states[2].scale_factor)
        /\ Len(all_fov) = SegLen
        /\ all_fov[1] = Exact(states[1].fov)
        /\ all_fov[SegLen] = Exact(states[2].fov)
        /\ Len(all_center) = SegLen
        /\ \A c \in 1..3 :
             /\ all_center[1][c] = Exact(states[1].center[c])
             /\ all_center[SegLen][c] = Exact(states[2].center[c])
        /\ \A l \in 1..NumLayers :
             /\ Len(all_vis[l]) = SegLen
             /\ all_vis[l][1] = state_visible[1][l]
             /\ all_vis[l][SegLen] = state_visible[2][l]
        /\ myviewer.ndim4 =>
             /\ Len(all_time) = SegLen
             /\ all_time[1] = state_time[1]
             /\ all_time[SegLen] = state_time[2]

\* C5: in the rotation channel every key-frame's rotation is emitted once:
\* K key-frames give (K-1)*(inter_steps+1)+1 entries, key-frame k standing
\* at position k*(inter_steps+1), with no entry doubled where two segments
\* meet.
C5_EndpointsOnce ==
    (StepsDone /\ NumKeys >= 2) =>
        /\ Len(all_states) = (NumKeys - 1) * (inter_steps + 1) + 1
        /\ \A k \in 0..(NumKeys - 1) :
             all_states[k * (inter_steps + 1) + 1] = Exact(states[k + 1].quaternion)

\* Two key-frames, layer l visible in the first and not in the second.
HidesLayer(l) ==
    /\ StepsDone
    /\ NumKeys = 2
    /\ state_visible[1][l]
    /\ ~state_visible[2][l]

\* C6 as stated: the layer's track is True in the first half of the
\* segment's frames and False in the second half.
C6_FlipAtMidpoint ==
    \A l \in 1..NumLayers :
        HidesLayer(l) =>
            \A i \in 0..(SegLen - 1) :
                /\ 2 * i < SegLen - 1 => all_vis[l][i + 1]
                /\ 2 * i > SegLen - 1 => ~all_vis[l][i + 1]

\* C6 amended: the layer's track is True at every frame of the segment but
\* the last, where the ramp reaches 0, and False at the last.
C6_VisibleUntilLastFrame ==
    \A l \in 1..NumLayers :
        HidesLayer(l) =>
            /\ Len(all_vis[l]) = SegLen
            /\ \A i \in 1..SegLen : all_vis[l][i] <=> i < SegLen

C6_Witness == HidesLayer(1) /\ inter_steps >= 2

\* C7: create_steps called with fewer than 2 key-frames raises, with or
\* without a time axis.
C7_TooFewKeyframesFail ==
    (last.steps # "none" /\ NumKeys < 2) => last.steps = "error"

TrackOf(r) ==
    <<r.all_states, r.all_scales, r.all_fov, r.all_center, r.all_vis,
      IF myviewer.ndim4 THEN r.all_time ELSE all_time>>

\* C8: after a capture, replace or delete, every handler so far having
\* completed, the stored track is the interpolation of the key-frame lists
\* as they are now (stated where that interpolation has frames).
C8_TrackIsFresh ==
    (last.op \in {"capture", "replace", "delete"} /\ last.clean /\ NumKeys >= 2) =>
        LET r == CreateStepsOf(states, state_visible, state_time, inter_steps,
                               myviewer.ndim4)
        IN trackVars = TrackOf(r)

\* ------------------------------------------------- command frames
OnlyAtGroups ==
    \A k \in 1..Len(command_series) : command_series[k].head.kind = "at"

\* The part of the claim below about "At frame N" groups: a script of such
\* groups only gives commands with start = end = the N of one of them.
AtGroupsHaveOneFrame ==
    (Listed /\ OnlyAtGroups) =>
        \A i \in 1..Len(command_list) :
           /\ command_list[i].start = command_list[i].end
           /\ \E k \in 1..Len(command_series) :
                command_series[k].head.a = command_list[i].start

\* C11: every command of command_list has start <= end, the parts of a
\* split rotation included, and every command of an "At frame N" group has
\* start = end = N.
C11_StartNotAfterEnd ==
    /\ Listed => \A i \in 1..Len(command_list) :
                     command_list[i].start <= command_list[i].end
    /\ AtGroupsHaveOneFrame

\* ------------------------------------------------- the key-frame cursor
\* C12: from a new Movie, after any capture, replace, delete, advance and
\* back operations, current_frame is an index of the key-frame list
\* whenever the list is not empty.
C12_CurrentFrameInRange ==
    NumKeys > 0 => (0 <= current_frame /\ current_frame < NumKeys)

\* ------------------------------------------- key-frames in the dense track
\* The track index (0-based) where the rotation channel holds key-frame k
\* (0-based): the start of segment k, and for the last key-frame the end of
\* the last segment.
KeyIndex(k) ==
    IF k < NumKeys - 1 THEN k * SegLen ELSE (NumKeys - 1) * SegLen - 1

\* The rotation channel holds key-frame k's rotation at KeyIndex(k).
RotationAtKeyIndex ==
    (StepsDone /\ NumKeys >= 2) =>
        \A k \in 0..(NumKeys - 1) :
            all_states[KeyIndex(k) + 1] = Exact(states[k + 1].quaternion)

\* C13: with K >= 2 key-frames, at the track index where the rotation
\* channel holds key-frame k's rotation, the zoom, fov, center and
\* visibility channels hold key-frame k's values too, for every k.
C13_KeyframesWhole ==
    (StepsDone /\ NumKeys >= 2) =>
        \A k \in 0..(NumKeys - 1) :
            /\ all_states[KeyIndex(k) + 1] = Exact(states[k + 1].quaternion)
            /\ all_scales[KeyIndex(k) + 1] = Exact(states[k + 1].scale_factor)
            /\ all_fov[KeyIndex(k) + 1] = Exact(states[k + 1].fov)
            /\ \A c \in 1..3 :
                 all_center[KeyIndex(k) + 1][c] = Exact(states[k + 1].center[c])
            /\ \A l \in 1..NumLayers :
                 all_vis[l][KeyIndex(k) + 1] = state_visible[k + 1][l]

\* ------------------------------------------- values chained in frame order
\* The value of each attribute after the first p commands on it, in
\* command_list order.
RotatePrefix(p) == snapshot.quaternion \o SubSeq(RotateDeltas, 1, p)
ZoomPrefix(p) == snapshot.scale_factor * ProdSeq(SubSeq(ZoomDeltas, 1, p))
TranslatePrefix(p) ==
    [k \in 1..3 |-> snapshot.center[k] + SumSeq(SubSeq(TranslateDeltas(k), 1, p))]
TimePrefix(p) == snapshot.point0 + SumSeq(SubSeq(TimeDeltas, 1, p))
VisPrefix(p) ==
    LET V == SelectSeq(command_list, IsVis) IN
    [l \in 1..NumLayers |->
       LET I == {i \in 1..p : V[i].op.n + 1 = l} IN
       IF I = {} THEN snapshot.visible[l] ELSE V[SetMax(I)].op.b]

\* The values u at a frame and w at a later frame are those of prefixes of
\* lengths p <= q of the n commands on the attribute.
ChainedPair(u, w, n, Prefix(_)) ==
    \E p, q \in 0..n : p <= q /\ u = Prefix(p) /\ w = Prefix(q)

\* C14: in states_dict, for each attribute, of two frames f < g that both
\* hold a value the later one holds the value of at least as many
\* compounded commands on the attribute as the earlier one.
C14_ChainedInFrameOrder ==
    Framed =>
        \A f, g \in 1..Len(states_dict) :
            f < g =>
              /\ (states_dict[f].rotate.has /\ states_dict[g].rotate.has) =>
                   ChainedPair(states_dict[f].rotate.v, states_dict[g].rotate.v,
                               Len(RotateDeltas), RotatePrefix)
              /\ (states_dict[f].zoom.has /\ states_dict[g].zoom.has) =>
                   ChainedPair(states_dict[f].zoom.v, states_dict[g].zoom.v,
                               Len(ZoomDeltas), ZoomPrefix)
              /\ (states_dict[f].translate.has /\ states_dict[g].translate.has) =>
                   ChainedPair(states_dict[f].translate.v, states_dict[g].translate.v,
                               Len(TranslateDeltas(1)), TranslatePrefix)
              /\ (states_dict[f].time.has /\ states_dict[g].time.has) =>
                   ChainedPair(states_dict[f].time.v, states_dict[g].time.v,
                               Len(TimeDeltas), TimePrefix)
              /\ (states_dict[f].vis.has /\ states_dict[g].vis.has) =>
                   ChainedPair(states_dict[f].vis.v, states_dict[g].vis.v,
                               Len(SelectSeq(command_list, IsVis)), VisPrefix)

====
